---- MODULE Spec2Model ----
(***************************************************************************)
(* LinkStash: the background script (src/background.js) and the side panel *)
(* script (src/unnamed/part_000, "sidebar.js") sharing one list of links   *)
(* in chrome.storage.session under the key STORAGE_KEY.                    *)
(*                                                                         *)
(* A JavaScript string is a sequence of tokens (a scheme with its          *)
(* separator, a host label, a path, a word, a blank).  null, undefined and *)
(* "" are all written <<>>: the code only ever tests them for truthiness.  *)
(* Every async handler is a process whose pc names the await it is         *)
(* suspended at; one action is the synchronous run from one await to the   *)
(* next.                                                                   *)
(***************************************************************************)
EXTENDS Integers, Sequences, FiniteSets, TLC

\* ------------------------------------------------------------- bounds
MaxOps == 4        \* handlers started in one behaviour
MaxFaults == 1     \* promises the browser rejects in one behaviour

\* Two slots for handlers in flight: the races are between two handlers.
Procs == {1, 2}

\* ------------------------------------------------------------ strings
EmptyStr == <<>>
SP == " "

\* The strings the page, the menu and the tab can hand to the extension.
UrlA == <<"https://", "a.com", "/p">>
UrlAUpper == <<"HTTPS://", "a.com", "/p">>
UrlMail == <<"mailto:", "x@a.com">>
UrlFtp == <<"ftp://", "a.com">>
UrlChrome == <<"chrome://", "extensions">>
TextAlpha == <<SP, "Alpha", SP>>
TextBlank == <<SP>>
TextHello == <<"hello", SP, "world">>

Truthy(s) == s # EmptyStr

\* String.prototype.trim
RECURSIVE TrimLeft(_)
TrimLeft(s) == IF s # <<>> /\ Head(s) = SP THEN TrimLeft(Tail(s)) ELSE s

RECURSIVE TrimRight(_)
TrimRight(s) ==
    IF s # <<>> /\ s[Len(s)] = SP THEN TrimRight(SubSeq(s, 1, Len(s) - 1)) ELSE s

Trim(s) == TrimRight(TrimLeft(s))

\* new URL(s): the scheme is matched without regard to case and reported in
\* lower case; a special scheme (http, https, ftp) needs a host.
SchemeOf(tok) ==
    CASE tok \in {"http://", "HTTP://"} -> "http:"
      [] tok \in {"https://", "HTTPS://"} -> "https:"
      [] tok \in {"ftp://", "FTP://"} -> "ftp:"
      [] tok = "chrome://" -> "chrome:"
      [] tok = "mailto:" -> "mailto:"
      [] OTHER -> "none"

IsSpecial(protocol) == protocol \in {"http:", "https:", "ftp:"}
IsHostLabel(tok) ==
    tok \in {"www.", "WWW.", "sub.", "a.com", "b.com", "example.com", "extensions"}

\* The URL parser reports the host in lower case.
LowerLabel(tok) == IF tok = "WWW." THEN "www." ELSE tok

RECURSIVE HostLabels(_)
HostLabels(s) ==
    IF s # <<>> /\ IsHostLabel(Head(s))
    THEN <<LowerLabel(Head(s))>> \o HostLabels(Tail(s))
    ELSE <<>>

NewURL(s) ==
    LET t == Trim(s)
        protocol == IF t = <<>> THEN "none" ELSE SchemeOf(Head(t))
        hierarchical == IsSpecial(protocol) \/ protocol = "chrome:"
        hostname == IF hierarchical THEN HostLabels(Tail(t)) ELSE <<>>
    IN  [ok |-> protocol # "none" /\ (IsSpecial(protocol) => hostname # <<>>),
         protocol |-> protocol,
         hostname |-> hostname]

\* tab.url.match(/^https?:\/\//)
MatchHttpRegex(s) == s # <<>> /\ Head(s) \in {"http://", "https://"}

\* Mutant: every leading "www." is removed.
RECURSIVE StripWwwAll(_)
StripWwwAll(hostname) ==
    IF hostname # <<>> /\ Head(hostname) = "www." THEN StripWwwAll(Tail(hostname))
    ELSE hostname

\* hostname.replace(/^www\./, "")
StripWww(hostname) ==
    IF hostname # <<>> /\ Head(hostname) = "www." THEN Tail(hostname) ELSE hostname

getDomain(url) ==
    LET u == NewURL(url) IN IF u.ok THEN StripWww(u.hostname) ELSE <<"Link">>

makeResult(title, url) ==
    [title |-> IF Truthy(Trim(title)) THEN Trim(title) ELSE getDomain(url),
     url |-> url]

NoLink == [title |-> EmptyStr, url |-> EmptyStr]

\* --------------------------------------------------- the page and the menu
\* An anchor of the page: its href attribute as written, the href the browser
\* resolves it to, and its text content.
Anchor(attr, href, text) == [attr |-> attr, href |-> href, text |-> text]

AnchorLists ==
    { << Anchor(UrlA, UrlA, TextBlank), Anchor(UrlA, UrlA, TextAlpha) >>,
      << Anchor(<<"/p">>, UrlA, TextAlpha), Anchor(UrlMail, UrlMail, EmptyStr) >> }

Selections == { EmptyStr, <<SP>> \o UrlA \o <<SP>>, UrlAUpper, UrlFtp, TextHello }

\* hovered: the position in anchors of the element matching a:hover, 0 for none.
Pages ==
    { pg \in [anchors : AnchorLists, hovered : 0..2, selection : Selections] :
        pg.hovered <= Len(pg.anchors) }

NullInfo == [isNull |-> TRUE, linkUrl |-> EmptyStr, selectionText |-> EmptyStr]

MenuInfo(linkUrl, selectionText) ==
    [isNull |-> FALSE, linkUrl |-> linkUrl, selectionText |-> selectionText]

\* The info of a context-menu click: the menu item is shown on a link or on a
\* selection, so one of the two is set.  A shortcut passes null.
MenuInfos ==
    { MenuInfo(UrlA, EmptyStr), MenuInfo(UrlMail, EmptyStr) }
    \cup { MenuInfo(EmptyStr, sel) : sel \in Selections \ {EmptyStr} }

Infos == MenuInfos \cup {NullInfo}

TabUrls == { <<"https://", "a.com", "/">>, UrlChrome, UrlFtp, EmptyStr }

\* The inputs of the concurrent specification: two links, one of them found
\* with its text on one page and without it on the other.
CoreInfos == { MenuInfo(UrlA, EmptyStr), MenuInfo(UrlMail, EmptyStr) }
CorePages == { pg \in Pages : pg.hovered = 0 /\ pg.selection = EmptyStr }
CoreTabUrls == { <<"https://", "a.com", "/">> }

NoResult == [found |-> FALSE, title |-> EmptyStr, url |-> EmptyStr]
Found(link) == [found |-> TRUE, title |-> link.title, url |-> link.url]

IsHttpProtocol(u) == u.protocol = "http:" \/ u.protocol = "https:"

\* document.querySelectorAll(`a[href="${linkUrl}"]`): the anchors whose href
\* attribute is linkUrl, in document order.
MatchingAnchors(anchors, linkUrl) ==
    SelectSeq(anchors, LAMBDA a : a.attr = linkUrl)

RECURSIVE FirstText(_)
FirstText(links) ==
    IF links = <<>> THEN EmptyStr
    ELSE IF Truthy(Trim(Head(links).text)) THEN Trim(Head(links).text)
    ELSE FirstText(Tail(links))

\* Path 1: context menu on a link.
LinkClickResult(info, page) ==
    Found(makeResult(FirstText(MatchingAnchors(page.anchors, info.linkUrl)),
                     info.linkUrl))

\* Mutant: any text that parses as a URL is a result, whatever its scheme.
UrlTextResultAnyScheme(text) ==
    IF NewURL(text).ok THEN Found(makeResult(EmptyStr, text)) ELSE NoResult

\* A selected text: a result only if it parses as an http or https URL.
UrlTextResult(text) ==
    LET u == NewURL(text)
    IN  IF u.ok /\ IsHttpProtocol(u) THEN Found(makeResult(EmptyStr, text))
        ELSE NoResult

\* Mutant: the selection is looked at before the hovered anchor.
ShortcutResultSelectionFirst(page) ==
    LET hoveredHref ==
            IF page.hovered = 0 THEN EmptyStr ELSE page.anchors[page.hovered].href
        selection == Trim(page.selection)
    IN  IF Truthy(selection) /\ UrlTextResult(selection).found
        THEN UrlTextResult(selection)
        ELSE IF Truthy(hoveredHref)
        THEN Found(makeResult(Trim(page.anchors[page.hovered].text), hoveredHref))
        ELSE NoResult

\* Path 3: shortcut.  The hovered anchor first, then the selection.
ShortcutResult(page) ==
    LET hoveredHref ==
            IF page.hovered = 0 THEN EmptyStr ELSE page.anchors[page.hovered].href
        selection == Trim(page.selection)
    IN  IF Truthy(hoveredHref)
        THEN Found(makeResult(Trim(page.anchors[page.hovered].text), hoveredHref))
        ELSE IF Truthy(selection) THEN UrlTextResult(selection)
        ELSE NoResult

findLinkOnPage(info, page) ==
    IF ~info.isNull /\ Truthy(info.linkUrl) THEN LinkClickResult(info, page)
    ELSE IF ~info.isNull /\ Truthy(info.selectionText)
         THEN UrlTextResult(Trim(info.selectionText))
    ELSE IF info.isNull THEN ShortcutResult(page)
    ELSE NoResult

\* Mutant: only the last entry is compared.
isDuplicateLastOnly(links, url) == links # <<>> /\ links[Len(links)].url = url

\* Mutant: the new link is put in front.
PushFront(links, linkData) ==
    <<[title |-> linkData.title, url |-> linkData.url]>> \o links

\* Mutant: the index is taken to count from 1.
SpliceOneBased(links, index) ==
    IF index >= 1 /\ index <= Len(links)
    THEN SubSeq(links, 1, index - 1) \o SubSeq(links, index + 1, Len(links))
    ELSE links

\* Mutant: the last element is removed, whatever the index.
SplicePop(links, index) == SubSeq(links, 1, Len(links) - 1)

\* Mutant: an index past the end removes the last element.
SpliceClamped(links, index) ==
    IF index < Len(links)
    THEN SubSeq(links, 1, index) \o SubSeq(links, index + 2, Len(links))
    ELSE SubSeq(links, 1, Len(links) - 1)

\* ------------------------------------------------------------- the list
isDuplicate(links, url) == \E i \in 1..Len(links) : links[i].url = url

\* links.push({title, url})
Push(links, linkData) ==
    Append(links, [title |-> linkData.title, url |-> linkData.url])

\* links.splice(index, 1), index counted from 0
Splice(links, index) ==
    IF index < Len(links)
    THEN SubSeq(links, 1, index) \o SubSeq(links, index + 2, Len(links))
    ELSE links

\* ------------------------------------------------------------ formatting
NL == "\n"

\* Mutant: title and url change places.
formatLinkSwapped(link, asMarkdown) ==
    IF asMarkdown
    THEN <<"[">> \o link.url \o <<"](">> \o link.title \o <<")">>
    ELSE link.title

\* `[${link.title}](${link.url})` or link.url
formatLink(link, asMarkdown) ==
    IF asMarkdown
    THEN <<"[">> \o link.title \o <<"](">> \o link.url \o <<")">>
    ELSE link.url

\* Mutant: every line is ended by a newline.
RECURSIVE JoinTerminated(_)
JoinTerminated(lines) ==
    IF lines = <<>> THEN EmptyStr
    ELSE Head(lines) \o <<NL>> \o JoinTerminated(Tail(lines))

\* Array.prototype.join("\n")
RECURSIVE Join(_)
Join(lines) ==
    IF lines = <<>> THEN EmptyStr
    ELSE IF Len(lines) = 1 THEN Head(lines)
    ELSE Head(lines) \o <<NL>> \o Join(Tail(lines))

formatAllPlain(links, asMarkdown) ==
    Join([i \in 1..Len(links) |-> formatLink(links[i], asMarkdown)])

formatAllBulleted(links, asMarkdown) ==
    Join([i \in 1..Len(links) |-> <<"- ">> \o formatLink(links[i], asMarkdown)])

\* ------------------------------------------------------------- the state
VARIABLES
    store,      \* the value under STORAGE_KEY in chrome.storage.session
    proc,       \* the handlers in flight: where each is suspended, its locals
    ops,        \* handlers started so far
    scripted,   \* chrome.scripting.executeScript calls so far
    panelPc,    \* the side panel: "closed", "loading" (first read), "loadRejected",
                \* "ready" (first read rendered), "loadFailed" (first read lost)
    rendered,   \* the list the panel last rendered
    notif,      \* onChanged events on their way to the panel, oldest first
    logged,     \* console.error calls
    uncaught,   \* rejections no handler caught
    clipboard   \* the text last written by navigator.clipboard.writeText

vars == <<store, proc, ops, scripted, panelPc, rendered, notif, logged, uncaught, clipboard>>

\* rejected: the promise the handler awaits has been rejected and its
\* continuation has not run yet.
IdleProc ==
    [pc |-> "idle", rejected |-> FALSE, info |-> NullInfo, linkData |-> NoLink,
     links |-> <<>>, index |-> 0, link |-> NoLink, bulleted |-> FALSE,
     asMarkdown |-> FALSE, text |-> EmptyStr]

\* The handler of slot p is suspended at `at` and the promise it awaits is
\* fulfilled.
Resumes(p, at) == proc[p].pc = at /\ ~proc[p].rejected

Idle(p) == proc[p].pc = "idle"
\* A new handler takes the first free slot.
CanStart(p) == Idle(p) /\ ops < MaxOps /\ \A q \in 1..(p - 1) : ~Idle(q)

Finish(p) == proc' = [proc EXCEPT ![p] = IdleProc]

\* Mutant: the write raises no change event.
StorageSetNoEvent(links) == store' = links /\ notif' = notif

\* chrome.storage.session.set({[STORAGE_KEY]: links}) taking effect: the value
\* is replaced and the panel's onChanged listener, once registered, is sent
\* the new value.  A write of an equal value may or may not raise the event.
StorageSet(links) ==
    /\ store' = links
    /\ IF panelPc = "closed" THEN notif' = notif
       ELSE IF links # store THEN notif' = Append(notif, links)
       ELSE \E fire \in BOOLEAN : notif' = IF fire THEN Append(notif, links) ELSE notif

\* getStoredLinks: result[STORAGE_KEY] || [], the stored list or [] when the
\* key is not set.
getStoredLinks == store

Init ==
    /\ store = <<>>
    /\ proc = [p \in Procs |-> IdleProc]
    /\ ops = 0
    /\ scripted = 0
    /\ panelPc = "closed"
    /\ rendered = <<>>
    /\ notif = <<>>
    /\ logged = 0
    /\ uncaught = 0
    /\ clipboard = EmptyStr

\* --------------------------------------------------------------- capture
\* Mutant: only a missing url is rejected.
TabRejectedMissingOnly(tabUrl) == ~Truthy(tabUrl)

\* The scheme test of handleLinkCapture.
TabRejected(tabUrl) == ~Truthy(tabUrl) \/ ~MatchHttpRegex(tabUrl)

\* handleLinkCapture(tab, info) up to the await of executeScript.
StartCapture(p, tabUrl, info) ==
    /\ CanStart(p)
    /\ ops' = ops + 1
    /\ IF TabRejected(tabUrl)
       THEN UNCHANGED <<proc, scripted>>
       ELSE /\ proc' = [proc EXCEPT ![p] = [IdleProc EXCEPT !.pc = "inject", !.info = info]]
            /\ scripted' = scripted + 1
    /\ UNCHANGED <<store, panelPc, rendered, notif, logged, uncaught, clipboard>>

\* linkData && linkData.url
Capturable(result) == result.found /\ Truthy(result.url)

\* executeScript resolves with what findLinkOnPage returned in the page; a
\* capturable result enters saveLink, which awaits the storage read.
InjectReturn(p, page) ==
    /\ Resumes(p, "inject")
    /\ LET linkData == findLinkOnPage(proc[p].info, page)
       IN  IF Capturable(linkData)
           THEN proc' = [proc EXCEPT ![p].pc = "saveGet",
                                     ![p].linkData = [title |-> linkData.title,
                                                      url |-> linkData.url]]
           ELSE Finish(p)
    /\ UNCHANGED <<store, ops, panelPc, rendered, notif, logged, uncaught, scripted, clipboard>>

\* Rejections so far, handled or not.
Faults ==
    logged + uncaught + Cardinality({p \in Procs : proc[p].rejected})
    + (IF panelPc = "loadRejected" THEN 1 ELSE 0)

Rejects(p, at) ==
    /\ proc[p].pc \in at
    /\ ~proc[p].rejected
    /\ Faults < MaxFaults
    /\ proc' = [proc EXCEPT ![p].rejected = TRUE]
    /\ UNCHANGED <<store, ops, panelPc, rendered, notif, logged, uncaught, scripted, clipboard>>

\* executeScript rejects: the page cannot be scripted.
InjectFail(p) == Rejects(p, {"inject"})

\* chrome.storage.session.get or set rejects; a rejected set writes nothing.
StorageFail(p) ==
    Rejects(p, {"saveGet", "saveSet", "delGet", "delSet", "daGet", "daSet", "copyGet"})

\* Mutant: no catch, the rejection leaves handleLinkCapture.
CaptureNoCatch(p) ==
    /\ proc[p].pc \in {"inject", "saveGet", "saveSet"}
    /\ proc[p].rejected
    /\ uncaught' = uncaught + 1
    /\ Finish(p)
    /\ UNCHANGED <<store, ops, panelPc, rendered, notif, logged, scripted, clipboard>>

\* The catch of handleLinkCapture, around executeScript and saveLink:
\* console.error, then the handler returns.
CaptureCatch(p) ==
    /\ proc[p].pc \in {"inject", "saveGet", "saveSet"}
    /\ proc[p].rejected
    /\ logged' = logged + 1
    /\ Finish(p)
    /\ UNCHANGED <<store, ops, panelPc, rendered, notif, uncaught, scripted, clipboard>>

\* saveLink after getStoredLinks: dedupe, push, start the write.
SaveGetReturn(p) ==
    /\ Resumes(p, "saveGet")
    /\ LET links == getStoredLinks
       IN  IF isDuplicate(links, proc[p].linkData.url)
           THEN Finish(p)
           ELSE proc' = [proc EXCEPT ![p].pc = "saveSet",
                                     ![p].links = Push(links, proc[p].linkData)]
    /\ UNCHANGED <<store, ops, panelPc, rendered, notif, logged, uncaught, scripted, clipboard>>

\* Mutant: the write is dropped.
SaveSetDoneDropped(p) ==
    /\ Resumes(p, "saveSet")
    /\ StorageSet(store)
    /\ Finish(p)
    /\ UNCHANGED <<ops, panelPc, rendered, logged, uncaught, scripted, clipboard>>

\* Mutant: the write appends to the list as it is stored now.
SaveSetDoneOnCurrent(p) ==
    /\ Resumes(p, "saveSet")
    /\ StorageSet(Push(store, proc[p].linkData))
    /\ Finish(p)
    /\ UNCHANGED <<ops, panelPc, rendered, logged, uncaught, scripted, clipboard>>

SaveSetDone(p) ==
    /\ Resumes(p, "saveSet")
    /\ StorageSet(proc[p].links)
    /\ Finish(p)
    /\ UNCHANGED <<ops, panelPc, rendered, logged, uncaught, scripted, clipboard>>

\* ------------------------------------------------------------- the panel
\* The panel script runs: the onChanged listener is registered and the
\* DOMContentLoaded handler awaits the first read.
OpenPanel ==
    /\ panelPc = "closed"
    /\ panelPc' = "loading"
    /\ UNCHANGED <<store, proc, ops, rendered, notif, logged, uncaught, scripted, clipboard>>

renderLinks(links) == rendered' = links

PanelLoadReturn ==
    /\ panelPc = "loading"
    /\ renderLinks(getStoredLinks)
    /\ panelPc' = "ready"
    /\ UNCHANGED <<store, proc, ops, notif, logged, uncaught, scripted, clipboard>>

\* The onChanged listener: renderLinks(changes[STORAGE_KEY].newValue || []).
DeliverChange ==
    /\ notif # <<>>
    /\ renderLinks(Head(notif))
    /\ notif' = Tail(notif)
    /\ UNCHANGED <<store, proc, ops, panelPc, logged, uncaught, scripted, clipboard>>

\* A click on the Delete button of the rendered item at position index:
\* deleteLink(index) up to the await of the read.
StartDelete(p, index) ==
    /\ CanStart(p)
    /\ index \in 0..(Len(rendered) - 1)
    /\ ops' = ops + 1
    /\ proc' = [proc EXCEPT ![p] = [IdleProc EXCEPT !.pc = "delGet", !.index = index,
                                                    !.link = rendered[index + 1]]]
    /\ UNCHANGED <<store, panelPc, rendered, notif, logged, uncaught, scripted, clipboard>>

DelGetReturn(p) ==
    /\ Resumes(p, "delGet")
    /\ proc' = [proc EXCEPT ![p].pc = "delSet",
                            ![p].links = Splice(getStoredLinks, proc[p].index)]
    /\ UNCHANGED <<store, ops, panelPc, rendered, notif, logged, uncaught, scripted, clipboard>>

DelSetDone(p) ==
    /\ Resumes(p, "delSet")
    /\ StorageSet(proc[p].links)
    /\ Finish(p)
    /\ UNCHANGED <<ops, panelPc, rendered, logged, uncaught, scripted, clipboard>>

\* A click on Delete all, up to the await of the read.
StartDeleteAll(p) ==
    /\ CanStart(p)
    /\ panelPc # "closed"
    /\ ops' = ops + 1
    /\ proc' = [proc EXCEPT ![p] = [IdleProc EXCEPT !.pc = "daGet"]]
    /\ UNCHANGED <<store, panelPc, rendered, notif, logged, uncaught, scripted, clipboard>>

\* Mutant: the write is started without looking at the answer.
DaGetReturnNoConfirm(p, confirmed) ==
    /\ Resumes(p, "daGet")
    /\ IF Len(getStoredLinks) = 0
       THEN Finish(p)
       ELSE proc' = [proc EXCEPT ![p].pc = "daSet"]
    /\ UNCHANGED <<store, ops, panelPc, rendered, notif, logged, uncaught, scripted, clipboard>>

\* After the read: nothing to do on an empty list, else confirm(), and the
\* write of [] when the user accepts.
DaGetReturn(p, confirmed) ==
    /\ Resumes(p, "daGet")
    /\ IF Len(getStoredLinks) = 0 \/ ~confirmed
       THEN Finish(p)
       ELSE proc' = [proc EXCEPT ![p].pc = "daSet"]
    /\ UNCHANGED <<store, ops, panelPc, rendered, notif, logged, uncaught, scripted, clipboard>>

\* Mutant: the list that was read is written back.
DaSetDoneWritesBack(p) ==
    /\ Resumes(p, "daSet")
    /\ StorageSet(store)
    /\ Finish(p)
    /\ UNCHANGED <<ops, panelPc, rendered, logged, uncaught, scripted, clipboard>>

DaSetDone(p) ==
    /\ Resumes(p, "daSet")
    /\ StorageSet(<<>>)
    /\ Finish(p)
    /\ UNCHANGED <<ops, panelPc, rendered, logged, uncaught, scripted, clipboard>>

\* ------------------------------------------------------------- copying
\* A click on the Copy button of the rendered item at position index, with
\* the item's checkbox as it is: copyToClipboard(formatLink(link, checked))
\* up to the await of writeText.
StartCopy(p, index, asMarkdown) ==
    /\ CanStart(p)
    /\ index \in 0..(Len(rendered) - 1)
    /\ ops' = ops + 1
    /\ proc' = [proc EXCEPT ![p] =
                  [IdleProc EXCEPT !.pc = "clipWrite", !.index = index,
                                   !.link = rendered[index + 1],
                                   !.asMarkdown = asMarkdown,
                                   !.text = formatLink(rendered[index + 1], asMarkdown)]]
    /\ UNCHANGED <<store, panelPc, rendered, notif, logged, uncaught, scripted, clipboard>>

\* A click on Copy all (plain) or Copy all (bulleted), up to the await of the
\* read.
StartCopyAll(p, bulleted) ==
    /\ CanStart(p)
    /\ panelPc # "closed"
    /\ ops' = ops + 1
    /\ proc' = [proc EXCEPT ![p] = [IdleProc EXCEPT !.pc = "copyGet", !.bulleted = bulleted]]
    /\ UNCHANGED <<store, panelPc, rendered, notif, logged, uncaught, scripted, clipboard>>

\* After the read: nothing is copied from an empty list; else the list is
\* formatted with the global checkbox as it is now and copyToClipboard is
\* called, which awaits writeText.
CopyGetReturn(p, asMarkdown) ==
    /\ Resumes(p, "copyGet")
    /\ LET links == getStoredLinks
       IN  IF Len(links) > 0
           THEN proc' = [proc EXCEPT
                           ![p].pc = "clipWrite",
                           ![p].links = links,
                           ![p].asMarkdown = asMarkdown,
                           ![p].text = IF proc[p].bulleted
                                       THEN formatAllBulleted(links, asMarkdown)
                                       ELSE formatAllPlain(links, asMarkdown)]
           ELSE Finish(p)
    /\ UNCHANGED <<store, ops, panelPc, rendered, notif, logged, uncaught, scripted, clipboard>>

\* navigator.clipboard.writeText(text) fulfilled.
ClipWriteDone(p) ==
    /\ Resumes(p, "clipWrite")
    /\ clipboard' = proc[p].text
    /\ Finish(p)
    /\ UNCHANGED <<store, ops, panelPc, rendered, notif, logged, uncaught, scripted>>

\* writeText rejects (no permission, document not focused).
ClipFail(p) == Rejects(p, {"clipWrite"})

\* The catch of copyToClipboard: console.error.
CopyCatch(p) ==
    /\ proc[p].pc = "clipWrite"
    /\ proc[p].rejected
    /\ logged' = logged + 1
    /\ Finish(p)
    /\ UNCHANGED <<store, ops, panelPc, rendered, notif, uncaught, scripted, clipboard>>

\* ------------------------------------------------ the step relation
\* deleteLink and the click handlers of Delete all and of the two copy-all
\* buttons have no catch, and nothing awaits the promise they return: the
\* rejection is unhandled.
PanelUnhandled(p) ==
    /\ proc[p].pc \in {"delGet", "delSet", "daGet", "daSet", "copyGet"}
    /\ proc[p].rejected
    /\ uncaught' = uncaught + 1
    /\ Finish(p)
    /\ UNCHANGED <<store, ops, panelPc, rendered, notif, logged, scripted, clipboard>>

\* The first read of the panel rejects; the DOMContentLoaded handler has no
\* catch either.
PanelLoadFail ==
    /\ panelPc = "loading"
    /\ Faults < MaxFaults
    /\ panelPc' = "loadRejected"
    /\ UNCHANGED <<store, proc, ops, rendered, notif, logged, uncaught, scripted, clipboard>>

PanelLoadUnhandled ==
    /\ panelPc = "loadRejected"
    /\ uncaught' = uncaught + 1
    /\ panelPc' = "loadFailed"
    /\ UNCHANGED <<store, proc, ops, rendered, notif, logged, scripted, clipboard>>

\* No handler is in flight and the panel is not reading.
Quiet == panelPc \in {"closed", "ready", "loadFailed"} /\ \A p \in Procs : Idle(p)

\* Handlers interleave at their awaits.
Next ==
    \/ \E p \in Procs, tabUrl \in CoreTabUrls, info \in CoreInfos :
          StartCapture(p, tabUrl, info)
    \/ \E p \in Procs, page \in CorePages : InjectReturn(p, page)
    \/ \E p \in Procs : InjectFail(p)
    \/ \E p \in Procs : SaveGetReturn(p)
    \/ \E p \in Procs : SaveSetDone(p)
    \/ OpenPanel
    \/ PanelLoadReturn
    \/ DeliverChange
    \/ \E p \in Procs, index \in 0..MaxOps : StartDelete(p, index)
    \/ \E p \in Procs : DelGetReturn(p)
    \/ \E p \in Procs : DelSetDone(p)
    \/ \E p \in Procs : StartDeleteAll(p)
    \/ \E p \in Procs, confirmed \in BOOLEAN : DaGetReturn(p, confirmed)
    \/ \E p \in Procs : DaSetDone(p)
    \/ \E p \in Procs : StorageFail(p)
    \/ \E p \in Procs : CaptureCatch(p)
    \/ \E p \in Procs : PanelUnhandled(p)
    \/ PanelLoadFail
    \/ PanelLoadUnhandled

Spec == Init /\ [][Next]_vars

\* Each user action runs to completion before the next begins; the change
\* events still reach the panel later.
NextSeq ==
    \/ \E p \in Procs, tabUrl \in TabUrls, info \in Infos :
          Quiet /\ StartCapture(p, tabUrl, info)
    \/ \E p \in Procs, page \in Pages : InjectReturn(p, page)
    \/ \E p \in Procs : InjectFail(p)
    \/ \E p \in Procs : SaveGetReturn(p)
    \/ \E p \in Procs : SaveSetDone(p)
    \/ Quiet /\ OpenPanel
    \/ PanelLoadReturn
    \/ DeliverChange
    \/ \E p \in Procs, index \in 0..MaxOps : Quiet /\ StartDelete(p, index)
    \/ \E p \in Procs : DelGetReturn(p)
    \/ \E p \in Procs : DelSetDone(p)
    \/ \E p \in Procs : Quiet /\ StartDeleteAll(p)
    \/ \E p \in Procs, confirmed \in BOOLEAN : DaGetReturn(p, confirmed)
    \/ \E p \in Procs : DaSetDone(p)
    \/ \E p \in Procs : StorageFail(p)
    \/ \E p \in Procs : CaptureCatch(p)
    \/ \E p \in Procs : PanelUnhandled(p)
    \/ PanelLoadFail
    \/ PanelLoadUnhandled

SpecSeq == Init /\ [][NextSeq]_vars

\* ------------------------------------------- the extractor on its own
\* Hosts with a leading "www.", two of them, one further in and one in upper
\* case; an href no URL parser accepts; an anchor without an href.
UrlWww == <<"https://", "www.", "example.com", "/page">>
UrlWwwWww == <<"https://", "www.", "www.", "b.com">>
UrlSubWww == <<"https://", "sub.", "www.", "b.com">>
UrlWwwUpper == <<"https://", "WWW.", "example.com">>
UrlNoHost == <<"https://">>

ExtractAnchorLists ==
    { << Anchor(UrlWww, UrlWww, TextBlank), Anchor(UrlWww, UrlWww, TextAlpha) >>,
      << Anchor(<<"/page">>, UrlWww, TextAlpha), Anchor(UrlWwwWww, UrlWwwWww, EmptyStr) >>,
      << Anchor(UrlNoHost, UrlNoHost, EmptyStr), Anchor(EmptyStr, EmptyStr, TextAlpha) >> }

ExtractSelections ==
    { EmptyStr, <<SP>> \o UrlWwwUpper \o <<SP>>, UrlSubWww, UrlFtp, TextHello }

ExtractPages ==
    { pg \in [anchors : ExtractAnchorLists, hovered : 0..2, selection : ExtractSelections] :
        pg.hovered <= Len(pg.anchors) }

\* A link click may carry a selection as well.
ExtractInfos ==
    { NullInfo }
    \cup { MenuInfo(linkUrl, sel) : linkUrl \in {UrlWww, UrlWwwWww},
                                    sel \in {EmptyStr, TextHello, UrlSubWww} }
    \cup { MenuInfo(EmptyStr, sel) : sel \in ExtractSelections \ {EmptyStr} }

\* handleLinkCapture has called executeScript for one click or shortcut; the
\* store is empty or holds links captured before.
InitExtract ==
    /\ store \in { <<>>,
                    <<[title |-> <<"Alpha">>, url |-> UrlWww]>>,
                    <<[title |-> <<"Alpha">>, url |-> UrlWww],
                      [title |-> <<"sub.", "www.", "b.com">>, url |-> UrlSubWww]>> }
    /\ \E info \in ExtractInfos :
          proc = [p \in Procs |->
                    IF p = 1 THEN [IdleProc EXCEPT !.pc = "inject", !.info = info]
                    ELSE IdleProc]
    /\ ops = Len(store) + 1
    /\ scripted = Len(store) + 1
    /\ panelPc = "closed"
    /\ rendered = <<>>
    /\ notif = <<>>
    /\ logged = 0
    /\ uncaught = 0
    /\ clipboard = EmptyStr

NextExtract ==
    \/ \E p \in Procs, page \in ExtractPages : InjectReturn(p, page)
    \/ \E p \in Procs : SaveGetReturn(p)
    \/ \E p \in Procs : SaveSetDone(p)

SpecExtract == InitExtract /\ [][NextExtract]_vars

\* The links of the copy specification: with and without a title, and a
\* title made of the characters of the Markdown link syntax.
TextBrackets == <<"[", "x", "](", "y", ")">>
CopyLinks ==
    { [title |-> <<"Alpha">>, url |-> UrlA],
      [title |-> EmptyStr, url |-> UrlMail],
      [title |-> TextBrackets, url |-> UrlFtp] }

\* The lists the store can hold of them: no url twice.
CopyLists ==
    { l \in UNION { [1..n -> CopyLinks] : n \in 0..Cardinality(CopyLinks) } :
        \A i, j \in 1..Len(l) : i # j => l[i].url # l[j].url }

\* The panel is open on a stored list and the user copies from it.
InitCopy ==
    /\ store \in CopyLists
    /\ proc = [p \in Procs |-> IdleProc]
    /\ ops = 0
    /\ scripted = 0
    /\ panelPc = "ready"
    /\ rendered = store
    /\ notif = <<>>
    /\ logged = 0
    /\ uncaught = 0
    /\ clipboard = EmptyStr

NextCopy ==
    \/ \E p \in Procs, index \in 0..MaxOps, asMarkdown \in BOOLEAN :
          StartCopy(p, index, asMarkdown)
    \/ \E p \in Procs, bulleted \in BOOLEAN : StartCopyAll(p, bulleted)
    \/ \E p \in Procs, asMarkdown \in BOOLEAN : CopyGetReturn(p, asMarkdown)
    \/ \E p \in Procs : ClipWriteDone(p)
    \/ \E p \in Procs : ClipFail(p)
    \/ \E p \in Procs : CopyCatch(p)
    \/ \E p \in Procs : StorageFail(p)
    \/ \E p \in Procs : PanelUnhandled(p)

SpecCopy == InitCopy /\ [][NextCopy]_vars

\* ----------------------------------------------------------- the claims
HasUrl(list, url) == \E i \in 1..Len(list) : list[i].url = url
Front(list) == SubSeq(list, 1, Len(list) - 1)
Last(list) == list[Len(list)]
IsPrefix(a, b) == Len(a) <= Len(b) /\ SubSeq(b, 1, Len(a)) = a

\* The handler of slot p, suspended at `at` with its promise fulfilled, runs
\* its continuation in this step.
Continues(p, at) == Resumes(p, at) /\ proc'[p].pc # at

\* The string is an absolute URL of the http or https scheme.
IsHttpUrl(s) == NewURL(s).ok /\ NewURL(s).protocol \in {"http:", "https:"}

\* C1: no two entries of the stored list have the same url, in every
\* reachable state, whatever the interleaving of the reads and writes of
\* captures, deletes and delete-all.
C1_NoDuplicateUrls ==
    \A i, j \in 1..Len(store) : i # j => store[i].url # store[j].url

\* Two entries are stored and a capture is about to write a list made from
\* an older read, for a url that has been stored meanwhile.
C1_Witness ==
    /\ Len(store) = 2
    /\ \E p \in Procs :
          /\ proc[p].pc = "saveSet"
          /\ HasUrl(store, proc[p].linkData.url)
          /\ Front(proc[p].links) # store

\* C2: with one operation at a time, saveLink appends exactly {title, url} at
\* the end of the stored list when no stored entry has exactly that url, and
\* otherwise returns with the stored list as it was (the first title stays).
C2_SaveLinkAppendsUnlessDuplicate ==
    [][\A p \in Procs :
          /\ Continues(p, "saveGet") =>
                /\ store' = store
                /\ IF HasUrl(store, proc[p].linkData.url)
                   THEN proc'[p].pc = "idle"
                   ELSE proc'[p].pc = "saveSet"
          /\ Continues(p, "saveSet") =>
                /\ ~HasUrl(store, proc[p].linkData.url)
                /\ store' = Append(store, [title |-> proc[p].linkData.title,
                                           url |-> proc[p].linkData.url])
                /\ proc'[p].pc = "idle"]_vars

\* saveLink has read a list that holds its url under another title, next to
\* the same url in another case.
C2_Witness ==
    \E p \in Procs :
        /\ Resumes(p, "saveGet")
        /\ proc[p].linkData.url = UrlA
        /\ HasUrl(store, UrlAUpper)
        /\ \E i \in 1..Len(store) :
              store[i].url = UrlA /\ store[i].title # proc[p].linkData.title

\* C3: every stored url, and every url handed to saveLink, is an absolute
\* http or https URL.
C3_OnlyHttpUrlsStored ==
    /\ \A i \in 1..Len(store) : IsHttpUrl(store[i].url)
    /\ \A p \in Procs :
          proc[p].pc \in {"saveGet", "saveSet"} => IsHttpUrl(proc[p].linkData.url)

\* C4: a capture that writes after another capture of a different url, both
\* having read the same list, replaces the other's write: the stored list
\* then holds its own url and no longer the other one.
C4_RacingCaptureLosesUpdate ==
    [][\A q \in Procs :
          ( /\ Continues(q, "saveSet")
            /\ Len(store) >= 1
            /\ Len(store) = Len(proc[q].links)
            /\ Front(store) = Front(proc[q].links)
            /\ Last(store).url # proc[q].linkData.url )
          => /\ HasUrl(store', proc[q].linkData.url)
             /\ ~HasUrl(store', Last(store).url)
             /\ Len(store') = Len(store)]_vars

\* Two handlers were started, both wrote a one-element list with a
\* different url (the two change events are still on their way to the
\* panel), both have completed, and the stored list holds only the second.
C4_Witness ==
    /\ ops = 2
    /\ \A p \in Procs : Idle(p)
    /\ Len(notif) = 2
    /\ Len(notif[1]) = 1 /\ Len(notif[2]) = 1
    /\ notif[1][1].url # notif[2][1].url
    /\ store = notif[2]

\* C5: with one operation at a time, a capture leaves the previous list as a
\* prefix of the new one, and deleteLink(index) leaves the list without
\* exactly the element at position index, the others in their order.
C5_OrderPreserved ==
    [][\A p \in Procs :
          /\ Continues(p, "saveSet") =>
                IsPrefix(store, store') /\ Len(store') = Len(store) + 1
          /\ Continues(p, "delSet") /\ proc[p].index < Len(store) =>
                /\ Len(store') = Len(store) - 1
                /\ \A k \in 1..Len(store') :
                      store'[k] = IF k <= proc[p].index THEN store[k] ELSE store[k + 1]]_vars

\* deleteLink(1) has read a list of three and is about to write it without
\* the second.
C5_Witness ==
    \E p \in Procs :
        /\ Resumes(p, "delSet")
        /\ proc[p].index = 1
        /\ Len(store) = 3
        /\ proc[p].links = <<store[1], store[3]>>

\* C6: with one operation at a time, deleteLink(index) with index out of
\* range of the list it reads writes that list back unchanged and raises no
\* error.
C6_OutOfRangeDeleteIsNoOp ==
    [][\A p \in Procs :
          /\ Continues(p, "delGet") /\ proc[p].index >= Len(store) =>
                /\ proc'[p].pc = "delSet"
                /\ proc'[p].links = store
                /\ store' = store
          /\ Continues(p, "delSet") /\ proc[p].index >= Len(store) =>
                /\ store' = store
                /\ proc'[p].pc = "idle"
                /\ logged' = logged /\ uncaught' = uncaught]_vars

\* deleteLink has read a non-empty list shorter than its index (the panel
\* still shows the longer list) and is about to write it back.
C6_Witness ==
    \E p \in Procs :
        /\ Resumes(p, "delSet")
        /\ Len(store) >= 1
        /\ proc[p].index >= Len(store)
        /\ proc[p].index < Len(rendered)
        /\ proc[p].links = store

\* C7: when the write of a confirmed delete-all completes, the stored list,
\* and so what getStoredLinks returns, is the empty sequence.
C7_DeleteAllEmpties ==
    [][\A p \in Procs :
          Continues(p, "daSet") => store' = <<>> /\ getStoredLinks' = <<>>]_vars

\* Two captures and a delete-all have completed: the panel still shows the
\* two links it loaded, the stored list is empty, and the one change event
\* on its way carries the empty list.
C7_Witness ==
    /\ ops = 3
    /\ \A p \in Procs : Idle(p)
    /\ Len(rendered) = 2
    /\ notif = << <<>> >>
    /\ getStoredLinks = <<>>

\* C8: a capture on a tab whose url is missing or is not an http or https
\* URL calls executeScript not at all and leaves the stored list and every
\* handler as they were.
C8_NonHttpTabRejected ==
    [][ops' # ops =>
          \A tabUrl \in TabUrls :
              ~IsHttpUrl(tabUrl) =>
                  \A p \in Procs, info \in Infos :
                      StartCapture(p, tabUrl, info) =>
                          /\ scripted' = scripted
                          /\ store' = store
                          /\ \A q \in Procs : proc'[q] = proc[q]]_vars

\* One handler was started and has returned without a call of executeScript.
C8_Witness ==
    /\ ops = 1
    /\ scripted = 0
    /\ panelPc = "closed"
    /\ \A p \in Procs : Idle(p)

\* A context-menu click on a selection (no link).
IsSelectionClick(info) ==
    ~info.isNull /\ info.linkUrl = EmptyStr /\ info.selectionText # EmptyStr

\* C9: a capture enters saveLink only with a result the extractor found,
\* with a non-empty url; with no result or an empty url it ends without a
\* storage call, the stored list unchanged.  A context-menu capture on a
\* selection whose trimmed text is not an absolute http(s) URL is such a
\* capture.
C9_NoResultNoMutation ==
    [][\A p \in Procs :
          Continues(p, "inject") =>
              /\ store' = store
              /\ proc'[p].pc \in {"idle", "saveGet"}
              /\ (proc'[p].pc = "saveGet") =>
                    \E page \in Pages :
                        LET r == findLinkOnPage(proc[p].info, page)
                        IN  /\ r.found /\ r.url # EmptyStr
                            /\ proc'[p].linkData = [title |-> r.title, url |-> r.url]
              /\ ( /\ IsSelectionClick(proc[p].info)
                   /\ ~IsHttpUrl(Trim(proc[p].info.selectionText)) )
                 => proc'[p].pc = "idle"]_vars

\* executeScript is running for a click on the selection "hello world",
\* with a link already stored.
C9_Witness ==
    \E p \in Procs :
        /\ Resumes(p, "inject")
        /\ proc[p].info = MenuInfo(EmptyStr, TextHello)
        /\ store # <<>>

\* C10: when executeScript rejects, handleLinkCapture logs the error and
\* returns: nothing is left uncaught and the stored list is unchanged.
C10_InjectFailureCaught ==
    [][\A p \in Procs :
          proc[p].pc = "inject" /\ proc[p].rejected /\ proc'[p].pc # "inject" =>
              /\ proc'[p].pc = "idle"
              /\ logged' = logged + 1
              /\ uncaught' = uncaught
              /\ store' = store]_vars

\* executeScript has rejected and the catch has not run yet, with a link
\* already stored.
C10_Witness ==
    \E p \in Procs :
        proc[p].pc = "inject" /\ proc[p].rejected /\ store # <<>>

\* C11: a rejected storage read or write is logged and goes no further, in
\* the capture, in deleteLink, in delete-all and in the first read of the
\* panel: no rejection is left unhandled.
C11_StorageFailureLogged == uncaught = 0

\* Nothing is in flight: no handler, no first read, no change event.
Settled == Quiet /\ panelPc # "closed" /\ notif = <<>>

C13_TitleNeverEmpty == \A i \in 1..Len(store) : store[i].title # EmptyStr

\* The text is "[" + title + "](" + url + ")", token by token.
IsMarkdownOf(t, link) ==
    /\ Len(t) = Len(link.title) + Len(link.url) + 3
    /\ t[1] = "["
    /\ SubSeq(t, 2, Len(link.title) + 1) = link.title
    /\ t[Len(link.title) + 2] = "]("
    /\ SubSeq(t, Len(link.title) + 3, Len(t) - 1) = link.url
    /\ t[Len(t)] = ")"

\* C14: formatLink(link, asMarkdown) is "[" + title + "](" + url + ")" when
\* asMarkdown is true and exactly url when it is false, title and url taken
\* as they are, and neither the link nor the stored list is changed.
C14_FormatLink ==
    [][\A p \in Procs :
          (Idle(p) /\ proc'[p].pc = "clipWrite") =>
              LET link == proc'[p].link
                  t == proc'[p].text
              IN  /\ link = rendered[proc'[p].index + 1]
                  /\ IF proc'[p].asMarkdown THEN IsMarkdownOf(t, link) ELSE t = link.url
                  /\ store' = store
                  /\ rendered' = rendered]_vars

\* The Copy button of an item whose title is made of brackets has been
\* clicked with its checkbox ticked, and the formatted text is being written.
C14_Witness ==
    \E p \in Procs :
        /\ proc[p].pc = "clipWrite"
        /\ proc[p].links = <<>>
        /\ proc[p].asMarkdown
        /\ proc[p].link.title = TextBrackets
        /\ proc[p].link \in {rendered[i] : i \in 1..Len(rendered)}

\* String.prototype.split("\n"), for reading a copied text back.
RECURSIVE SplitLines(_)
SplitLines(t) ==
    IF \E k \in 1..Len(t) : t[k] = NL
    THEN LET k == CHOOSE k \in 1..Len(t) : t[k] = NL /\ \A j \in 1..(k - 1) : t[j] # NL
         IN  <<SubSeq(t, 1, k - 1)>> \o SplitLines(SubSeq(t, k + 1, Len(t)))
    ELSE <<t>>

\* C15: the text of a copy-all has one line per link, in the order of the
\* list, separated by single newlines with none after the last: line i is
\* formatLink of link i, with "- " in front of it in the bulleted form.
C15_FormatAll ==
    [][\A p \in Procs :
          (Continues(p, "copyGet") /\ proc'[p].pc = "clipWrite") =>
              LET lines == SplitLines(proc'[p].text)
                  bullet == IF proc[p].bulleted THEN <<"- ">> ELSE <<>>
              IN  /\ Len(lines) = Len(store)
                  /\ \A i \in 1..Len(store) :
                        lines[i] = bullet \o formatLink(store[i], proc'[p].asMarkdown)
                  /\ store' = store]_vars

\* A list of three links has been formatted as a bulleted Markdown list.
C15_Witness ==
    \E p \in Procs :
        /\ proc[p].pc = "clipWrite"
        /\ Len(proc[p].links) = 3
        /\ proc[p].bulleted
        /\ proc[p].asMarkdown
        /\ Len(SplitLines(proc[p].text)) = 3

\* title is the host of url without one leading "www.", or "Link" when url
\* does not parse.
IsDomainOf(title, url) ==
    LET u == NewURL(url)
    IN  IF ~u.ok THEN title = <<"Link">>
        ELSE \/ u.hostname = <<"www.">> \o title
             \/ u.hostname = title /\ (title = <<>> \/ Head(title) # "www.")

AnchorTexts(page) == { Trim(page.anchors[i].text) : i \in 1..Len(page.anchors) }

\* C16: a title that is not the text of an anchor is the domain fallback:
\* the hostname of the url with one leading "www." removed, "example.com"
\* for "https://www.example.com/page", a "www." that is not leading kept,
\* and "Link" only when the url does not parse.
C16_DomainFallback ==
    [][\A p \in Procs :
          (Continues(p, "inject") /\ proc'[p].pc = "saveGet") =>
              \A page \in ExtractPages :
                  (InjectReturn(p, page) /\ proc'[p].linkData.title \notin AnchorTexts(page)) =>
                      LET title == proc'[p].linkData.title
                          url == proc'[p].linkData.url
                      IN  /\ IsDomainOf(title, url)
                          /\ url = UrlWww => title = <<"example.com">>
                          /\ url = UrlSubWww => title = <<"sub.", "www.", "b.com">>
                          /\ title = <<"Link">> <=> ~NewURL(url).ok]_vars

\* A link to www.www.b.com without text has been found: one "www." is gone.
C16_Witness ==
    \E p \in Procs :
        /\ proc[p].pc = "saveGet"
        /\ proc[p].linkData = [title |-> <<"www.", "b.com">>, url |-> UrlWwwWww]

\* C17: on the shortcut a hovered anchor with an href is the result, its
\* href with its trimmed text or the domain fallback, whatever is selected;
\* with none, a non-empty selection that parses as an http or https URL is
\* the result; else there is no result.
C17_ShortcutPriority ==
    [][\A p \in Procs :
          (Continues(p, "inject") /\ proc[p].info.isNull) =>
              \A page \in ExtractPages :
                  InjectReturn(p, page) =>
                      LET a == IF page.hovered = 0 THEN Anchor(EmptyStr, EmptyStr, EmptyStr)
                               ELSE page.anchors[page.hovered]
                          sel == Trim(page.selection)
                          got == proc'[p].linkData
                      IN  IF a.href # EmptyStr
                          THEN /\ proc'[p].pc = "saveGet"
                               /\ got.url = a.href
                               /\ got.title = IF Trim(a.text) # EmptyStr THEN Trim(a.text)
                                              ELSE getDomain(a.href)
                          ELSE IF sel # EmptyStr /\ IsHttpUrl(sel)
                          THEN /\ proc'[p].pc = "saveGet"
                               /\ got.url = sel
                               /\ got.title = getDomain(sel)
                          ELSE proc'[p].pc = "idle"]_vars

\* The shortcut has found the hovered anchor: no selection is that url.
C17_Witness ==
    \E p \in Procs :
        /\ proc[p].pc = "saveGet"
        /\ proc[p].info.isNull
        /\ proc[p].linkData = [title |-> <<"Alpha">>, url |-> UrlWww]

\* C18: a click on a link gives linkUrl as the url, whatever is selected, and
\* as the title the trimmed text of the first anchor of the document whose
\* href is linkUrl and whose trimmed text is not empty, or the domain
\* fallback when there is none.
C18_LinkClickTitle ==
    [][\A p \in Procs :
          (Continues(p, "inject") /\ ~proc[p].info.isNull /\ proc[p].info.linkUrl # EmptyStr) =>
              \A page \in ExtractPages :
                  InjectReturn(p, page) =>
                      LET linkUrl == proc[p].info.linkUrl
                          same == SelectSeq(page.anchors,
                                            LAMBDA a : a.href = linkUrl /\ Trim(a.text) # EmptyStr)
                      IN  /\ proc'[p].pc = "saveGet"
                          /\ proc'[p].linkData.url = linkUrl
                          /\ proc'[p].linkData.title =
                                IF same # <<>> THEN Trim(Head(same).text)
                                ELSE getDomain(linkUrl)]_vars

\* The list without the entries of this url.
WithoutUrl(list, url) == SelectSeq(list, LAMBDA l : l.url # url)

\* C19 as stated: the list deleteLink prepares for its write is the list it
\* read without the link the clicked item displays, whatever has happened to
\* the stored list since the render.
C19_DeleteRemovesDisplayed ==
    [][\A p \in Procs :
          Continues(p, "delGet") =>
              proc'[p].links = WithoutUrl(store, proc[p].link.url)]_vars

\* C19, amended: deleteLink removes the entry at the item's position in the
\* list it reads: the displayed link when that link is still at the
\* position, the link that has taken its place otherwise, nothing when the
\* position is past the end.
C19_DeleteRemovesAtPosition ==
    [][\A p \in Procs :
          Continues(p, "delGet") =>
              LET i == proc[p].index + 1
                  links == proc'[p].links
              IN  IF i <= Len(store) /\ store[i].url = proc[p].link.url
                  THEN links = WithoutUrl(store, proc[p].link.url)
                  ELSE IF i <= Len(store)
                  THEN /\ Len(links) = Len(store) - 1
                       /\ \A k \in 1..Len(links) :
                             links[k] = IF k < i THEN store[k] ELSE store[k + 1]
                       /\ HasUrl(store, proc[p].link.url) => HasUrl(links, proc[p].link.url)
                  ELSE links = store]_vars

\* A delete has read a list the panel had not rendered yet and has taken the
\* displayed link out of it: the link was still at the item's position.
C19_Witness ==
    \E p \in Procs :
        /\ proc[p].pc = "delSet"
        /\ notif # <<>>
        /\ HasUrl(store, proc[p].link.url)
        /\ proc[p].links = WithoutUrl(store, proc[p].link.url)
        /\ Len(proc[p].links) >= 1

\* C20 as stated, for behaviours of two captures, where a link that is
\* missing from the store can only have been removed by deleteLink or by
\* delete-all: the write of the second capture puts no url in the store but
\* its own.
C20_RemovedStaysRemoved ==
    [][\A p \in Procs :
          (Continues(p, "saveSet") /\ scripted = 2) =>
              \A i \in 1..Len(store') :
                  HasUrl(store, store'[i].url) \/ store'[i].url = proc[p].linkData.url]_vars

\* C20, amended: a capture whose read list is still the stored list when it
\* writes only appends its own link, so it brings no removed link back.
C20_CurrentReadOnlyAppends ==
    [][\A p \in Procs :
          (Continues(p, "saveSet") /\ Len(proc[p].links) >= 1 /\ Front(proc[p].links) = store) =>
              /\ Len(store') = Len(store) + 1
              /\ Front(store') = store
              /\ Last(store').url = proc[p].linkData.url]_vars

\* The panel still shows a link that has been removed, the store is empty,
\* and a capture of another url that read the empty store is about to write.
C20_Witness ==
    \E p \in Procs :
        /\ Resumes(p, "saveSet")
        /\ store = <<>>
        /\ Front(proc[p].links) = store
        /\ rendered # <<>>
        /\ ~HasUrl(rendered, proc[p].linkData.url)

\* C21: the delete-all handler writes only after the user has confirmed.
\* The step after its read changes neither the stored list nor the events
\* on their way; on an empty list it ends whatever the user would answer,
\* so no answer is asked for; on a declined confirmation it ends; it goes on
\* to the write exactly when the list is not empty and the user accepts.
C21_DeleteAllNeedsConfirm ==
    [][\A p \in Procs :
          Continues(p, "daGet") =>
              /\ store' = store
              /\ notif' = notif
              /\ proc'[p].pc \in {"idle", "daSet"}
              /\ Len(store) = 0 => proc'[p].pc = "idle"
              /\ \A confirmed \in BOOLEAN :
                    DaGetReturn(p, confirmed) =>
                        (proc'[p].pc = "daSet" <=> (confirmed /\ Len(store) > 0))]_vars

\* One capture and one delete-all have run to their end without a failure
\* and the captured link is still stored: the delete-all found the list
\* empty or was declined.
C21_Witness ==
    /\ ops = 2
    /\ scripted = 1
    /\ \A p \in Procs : Idle(p)
    /\ panelPc = "ready"
    /\ rendered # <<>>
    /\ Len(store) = 1
    /\ logged = 0
    /\ uncaught = 0

====
